---- MODULE Spec2Model ----
(***************************************************************************)
(* Model of cpu/schbench.py (class Schbench): the two output parsers       *)
(* parse_schbench_data and parse_perf_data, and the test() method that     *)
(* runs the benchmark and reports the parsed result.                       *)
(*                                                                         *)
(* Text lines are TLA+ strings, i.e. the very strings the Python code      *)
(* receives.  Substring tests ("x in line") and the regular expressions    *)
(* are evaluated character by character.  Python's float is modelled by    *)
(* the exact rational <<numerator, denominator>> in lowest terms.  Python  *)
(* dicts are functions whose DOMAIN is the set of keys.                    *)
(***************************************************************************)
EXTENDS Integers, Sequences, FiniteSets, TLC

VARIABLES
    op,                     \* which method this behaviour runs
    input,                  \* the `data` argument as passed by the caller
    data,                   \* local `data` (rebound at line 107)
    pc,                     \* position in the method
    i,                      \* loop position (lines consumed by the running loop)
    last_occurrence_index,  \* parse_schbench_data local, Python 0-based, -1 = none
    current_category,       \* parse_schbench_data local (None or a category key)
    results,                \* local `results` / `result`
    in_performance_stats,   \* parse_perf_data local
    schbench_params,        \* self.schbench_params (the fields test() reads)
    cmd,                    \* test(): the command line built at line 194
    exit_status,            \* test(): res.exit_status
    logfile,                \* content of <logdir>/schbench.json (NotWritten before)
    exception               \* the exception that ended the method, or None

vars == <<op, input, data, pc, i, last_occurrence_index, current_category,
          results, in_performance_stats, schbench_params, cmd, exit_status,
          logfile, exception>>

None == "None"
NotWritten == "NotWritten"

(***************************************************************************)
(* Bounds of the model.                                                    *)
(***************************************************************************)
MaxLen == 3

(***************************************************************************)
(* Characters and strings.                                                 *)
(***************************************************************************)
\* The whitespace a line can hold: str.splitlines() (line 200) has cut the
\* text at every line-break character.
Space == {" ", "\t"}
Digit == {"0", "1", "2", "3", "4", "5", "6", "7", "8", "9"}
NumChar == Digit \cup {",", "."}

At(s, k) == SubSeq(s, k, k)

\* Python: sub in s
In(sub, s) ==
    \E k \in 1..(Len(s) - Len(sub) + 1) : SubSeq(s, k, k + Len(sub) - 1) = sub

\* The literal lit stands in s at position k.
Lit(s, k, lit) ==
    /\ k >= 1
    /\ k + Len(lit) - 1 <= Len(s)
    /\ SubSeq(s, k, k + Len(lit) - 1) = lit

\* Greedy C*: the first position >= k of s that holds no character of C.
SpanEnd(s, k, C) ==
    CHOOSE j \in k..(Len(s) + 1) :
        /\ j = Len(s) + 1 \/ At(s, j) \notin C
        /\ \A m \in k..(j - 1) : At(s, m) \in C

\* Greedy [^c]*: the first position >= k of s that holds c (or the end).
SpanUntil(s, k, c) ==
    CHOOSE j \in k..(Len(s) + 1) :
        /\ j = Len(s) + 1 \/ At(s, j) = c
        /\ \A m \in k..(j - 1) : At(s, m) # c

\* Python: s.strip()
strip(s) ==
    LET a == SpanEnd(s, 1, Space)
        b == CHOOSE j \in 0..Len(s) :
                 /\ j = 0 \/ At(s, j) \notin Space
                 /\ \A m \in (j + 1)..Len(s) : At(s, m) \in Space
    IN  IF a > Len(s) THEN "" ELSE SubSeq(s, a, b)

RECURSIVE replace_comma(_)
\* Python: s.replace(',', '')
replace_comma(s) ==
    IF Len(s) = 0 THEN ""
    ELSE (IF At(s, 1) = "," THEN "" ELSE At(s, 1))
             \o replace_comma(SubSeq(s, 2, Len(s)))

(***************************************************************************)
(* float(): the value of a string over digits and ".", or a ValueError.    *)
(***************************************************************************)
DigitVal(c) ==
    CASE c = "0" -> 0 [] c = "1" -> 1 [] c = "2" -> 2 [] c = "3" -> 3
      [] c = "4" -> 4 [] c = "5" -> 5 [] c = "6" -> 6 [] c = "7" -> 7
      [] c = "8" -> 8 [] c = "9" -> 9

RECURSIVE IntOf(_)
IntOf(s) ==
    IF Len(s) = 0 THEN 0
    ELSE 10 * IntOf(SubSeq(s, 1, Len(s) - 1)) + DigitVal(At(s, Len(s)))

RECURSIVE Pow10(_)
Pow10(n) == IF n = 0 THEN 1 ELSE 10 * Pow10(n - 1)

RECURSIVE Gcd(_, _)
Gcd(a, b) == IF b = 0 THEN a ELSE Gcd(b, a % b)

\* float(s) raises ValueError: s is not  digits [. digits*]  nor  . digits
float_raises(s) ==
    LET a == SpanEnd(s, 1, Digit)
        b == IF Lit(s, a, ".") THEN SpanEnd(s, a + 1, Digit) ELSE a
    IN  \/ b # Len(s) + 1
        \/ ~ \E k \in 1..Len(s) : At(s, k) \in Digit

\* float(s) for a string on which it does not raise.
float(s) ==
    LET a == SpanEnd(s, 1, Digit)
        ip == SubSeq(s, 1, a - 1)
        fp == SubSeq(s, a + 1, Len(s))
        n == IntOf(ip \o fp)
        d == Pow10(Len(fp))
        g == Gcd(n, d)
    IN  <<n \div g, d \div g>>

(***************************************************************************)
(* Small dict helpers.                                                     *)
(***************************************************************************)
EmptyDict == <<>>

\* Python: d[k] = v
DictSet(d, k, v) == (k :> v) @@ d

\* Python: d.setdefault(k, v) (the dict after the call)
SetDefault(d, k, v) == IF k \in DOMAIN d THEN d ELSE DictSet(d, k, v)

\* Python: d.update(e) (the dict after the call)
DictUpdate(d, e) == e @@ d

(***************************************************************************)
(* parse_schbench_data                                                     *)
(***************************************************************************)
NoMatch == <<>>

\* The dict literal of lines 92-96, in insertion (= iteration) order.
category_mapping ==
    << <<"Wakeup Latencies percentiles", "wakeup_latencies_percentiles">>,
       <<"Request Latencies percentiles", "request_latencies_percentiles">>,
       <<"RPS percentiles (requests)", "rps_percentiles">> >>

\* The new block of lines 113-116.
EmptyBlock == [percentiles |-> <<>>, min_max |-> EmptyDict]

\* Variant: keeps the first occurrence.
FindLastUpdateFirst(last, idx, line) ==
    IF In("Wakeup Latencies percentiles", line) /\ last = -1 THEN idx ELSE last

\* Variant: any of the three category headers counts.
FindLastUpdateAnyHeader(last, idx, line) ==
    IF \E n \in 1..Len(category_mapping) : In(category_mapping[n][1], line)
    THEN idx ELSE last

\* Lines 99-101, one iteration: the index kept after looking at line number
\* idx (0-based) of data.
FindLastUpdate(last, idx, line) ==
    IF In("Wakeup Latencies percentiles", line) THEN idx ELSE last

\* Variant: the last entry of category_mapping whose name is in the line.
MatchedCategoryLast(line) ==
    LET hits == {n \in 1..Len(category_mapping) : In(category_mapping[n][1], line)}
    IN  IF hits = {} THEN None
        ELSE category_mapping[CHOOSE n \in hits : \A m \in hits : n >= m][2]

\* Lines 109-111 and 117: the key of the first entry of category_mapping whose
\* name is in the line, None when there is none.
MatchedCategory(line) ==
    LET hits == {n \in 1..Len(category_mapping) : In(category_mapping[n][1], line)}
    IN  IF hits = {} THEN None
        ELSE category_mapping[CHOOSE n \in hits : \A m \in hits : n <= m][2]

\* Variant: assigns a fresh block instead of setdefault.
SelectCategoryReset(res, cur, line) ==
    LET key == MatchedCategory(line)
    IN  IF key = None THEN [results |-> res, current_category |-> cur]
        ELSE [results |-> DictSet(res, key, EmptyBlock), current_category |-> key]

\* Lines 109-117: results and current_category after the header loop.
SelectCategory(res, cur, line) ==
    LET key == MatchedCategory(line)
    IN  IF key = None THEN [results |-> res, current_category |-> cur]
        ELSE [results |-> SetDefault(res, key, EmptyBlock),
              current_category |-> key]

\* Lines 119-121: re.match(r'\s*(\*?)\s*(\d+\.\d+)th: (\d+)\s+\((\d+) samples\)', line)
\* The groups <<1, 2, 3, 4>>, or NoMatch.
re_match_percentile(line) ==
    LET a == SpanEnd(line, 1, Space)
        b == IF Lit(line, a, "*") THEN a + 1 ELSE a
        c == SpanEnd(line, b, Space)
        d == SpanEnd(line, c, Digit)
        e == SpanEnd(line, d + 1, Digit)
        f == e + 4
        g == SpanEnd(line, f, Digit)
        h == SpanEnd(line, g, Space)
        k == SpanEnd(line, h + 1, Digit)
    IN  IF /\ d > c /\ Lit(line, d, ".") /\ e > d + 1
           /\ Lit(line, e, "th: ") /\ g > f
           /\ h > g /\ Lit(line, h, "(")
           /\ k > h + 1 /\ Lit(line, k, " samples)")
        THEN <<SubSeq(line, a, b - 1), SubSeq(line, c, e - 1),
               SubSeq(line, f, g - 1), SubSeq(line, h + 1, k - 1)>>
        ELSE NoMatch

\* Lines 134-135: re.match(r'\s*min=(\d+), max=(\d+)', line)
re_match_min_max(line) ==
    LET a == SpanEnd(line, 1, Space)
        b == a + 4
        c == SpanEnd(line, b, Digit)
        d == c + 6
        e == SpanEnd(line, d, Digit)
    IN  IF /\ Lit(line, a, "min=") /\ c > b
           /\ Lit(line, c, ", max=") /\ e > d
        THEN <<SubSeq(line, b, c - 1), SubSeq(line, d, e - 1)>>
        ELSE NoMatch

\* Lines 142-143: re.match(r'average rps: (\d+\.\d+)', line)
re_match_average_rps(line) ==
    LET b == 14
        c == SpanEnd(line, b, Digit)
        d == SpanEnd(line, c + 1, Digit)
    IN  IF /\ Lit(line, 1, "average rps: ") /\ c > b
           /\ Lit(line, c, ".") /\ d > c + 1
        THEN <<SubSeq(line, b, d - 1)>>
        ELSE NoMatch

\* Variant: the flat entry schema.
PercentileEntryFlat(percentile, latency, samples) ==
    [percentile |-> percentile, latency |-> latency, samples |-> samples]

\* Lines 125-130: the entry appended for a percentile line.
PercentileEntry(percentile, latency, samples) ==
    ("percentile_" \o percentile) :> [latency |-> latency, samples |-> samples]

\* Lines 131-132: current_percentiles["percentiles"].append(entry), where
\* current_percentiles is results[cur].
AppendPercentile(res, cur, entry) ==
    [res EXCEPT ![cur].percentiles = Append(@, entry)]

\* Lines 137-140: current_percentiles["min_max"]["min"/"max"] = ...
SetMinMax(res, cur, mn, mx) ==
    [res EXCEPT ![cur].min_max = DictSet(DictSet(@, "min", mn), "max", mx)]

\* Lines 118-146: results after the if/elif chain on one line.
ClassifyLine(res, cur, line) ==
    IF cur # None /\ strip(line) # ""
    THEN LET match == re_match_percentile(line)
         IN  IF match # NoMatch
             THEN AppendPercentile(res, cur,
                      PercentileEntry(match[2], match[3], match[4]))
             ELSE IF In("min=", line)
             THEN LET min_max_match == re_match_min_max(line)
                  IN  IF min_max_match # NoMatch
                      THEN SetMinMax(res, cur, min_max_match[1], min_max_match[2])
                      ELSE res
             ELSE IF In("average rps:", line)
             THEN LET average_rps_match == re_match_average_rps(line)
                  IN  IF average_rps_match # NoMatch
                      THEN DictSet(res, "average_rps", float(average_rps_match[1]))
                      ELSE res
             ELSE res
    ELSE res

\* Lines 108-146, one iteration of "for line in data".
ProcessLine(res, cur, line) ==
    LET sel == SelectCategory(res, cur, line)
    IN  [results |-> ClassifyLine(sel.results, sel.current_category, line),
         current_category |-> sel.current_category]

RECURSIVE FindLast(_, _)
\* Lines 98-101: last_occurrence_index after the first n lines of d.
FindLast(d, n) ==
    IF n = 0 THEN -1 ELSE FindLastUpdate(FindLast(d, n - 1), n - 1, d[n])

RECURSIVE ProcessAll(_, _)
\* Lines 105-146: the loop state after the first n lines of d.
ProcessAll(d, n) ==
    IF n = 0 THEN [results |-> EmptyDict, current_category |-> None]
    ELSE LET st == ProcessAll(d, n - 1)
         IN  ProcessLine(st.results, st.current_category, d[n])

\* Lines 86-147 as a function of the argument: the dict returned.
parse_schbench_data(d) ==
    LET last == FindLast(d, Len(d))
    IN  IF last # -1
        THEN LET tail == SubSeq(d, last + 1, Len(d))
             IN  ProcessAll(tail, Len(tail)).results
        ELSE EmptyDict

(***************************************************************************)
(* parse_perf_data                                                         *)
(***************************************************************************)
\* Lines 160-161:
\* re.match(r'\s*([\d,.]+)\s+([^#]+)\s+#\s*([\d,.]+)\s*([^#]+)?', line)
\* The groups <<1, 2, 3, 4>>, or NoMatch; a group 4 that took no part in the
\* match (Python's None) is given as "", which line 166 treats alike.
\* Group 2 cannot cross a "#", so the "#" of the pattern is the first one
\* after group 1; backtracking leaves the one whitespace before it to \s+.
re_match_perf(line) ==
    LET a == SpanEnd(line, 1, Space)
        e == SpanEnd(line, a, NumChar)
        w == SpanEnd(line, e, Space)
        h == SpanUntil(line, e, "#")
        b == SpanEnd(line, h + 1, Space)
        c == SpanEnd(line, b, NumChar)
        d == SpanEnd(line, c, Space)
        f == SpanUntil(line, d, "#")
    IN  IF /\ e > a
           /\ h <= Len(line) /\ h - e >= 3
           /\ At(line, e) \in Space /\ At(line, h - 1) \in Space
           /\ c > b
        THEN <<SubSeq(line, a, e - 1),
               IF w < h THEN SubSeq(line, w, h - 2) ELSE SubSeq(line, h - 2, h - 2),
               SubSeq(line, b, c - 1),
               SubSeq(line, d, f - 1)>>
        ELSE NoMatch

\* Lines 162-171: results after a line that is eligible for matching, and the
\* exception a float() call raised (None when none did).
PerfRecord(res, line) ==
    LET match == re_match_perf(line)
        raw_value == strip(replace_comma(match[1]))
        key == strip(match[2])
        unit_value == strip(replace_comma(match[3]))
        unit == IF match[4] # "" THEN strip(match[4]) ELSE ""
        res1 == SetDefault(res, key, EmptyDict)
        res2 == [res1 EXCEPT ![key] = DictSet(@, "raw", float(raw_value))]
    IN  IF match = NoMatch THEN [results |-> res, exception |-> None]
        ELSE IF float_raises(raw_value)
        THEN [results |-> res1, exception |-> "ValueError"]
        ELSE IF unit = "" THEN [results |-> res2, exception |-> None]
        ELSE IF float_raises(unit_value)
        THEN [results |-> res2, exception |-> "ValueError"]
        ELSE [results |-> [res2 EXCEPT ![key] = DictSet(@, unit, float(unit_value))],
              exception |-> None]

\* Lines 155-171, one iteration of "for line in data".
PerfLine(res, in_stats, line) ==
    IF In("Performance counter stats", line)
    THEN [results |-> res, in_performance_stats |-> TRUE, exception |-> None]
    ELSE IF in_stats /\ strip(line) # ""
    THEN LET r == PerfRecord(res, line)
         IN  [results |-> r.results, in_performance_stats |-> in_stats,
              exception |-> r.exception]
    ELSE [results |-> res, in_performance_stats |-> in_stats, exception |-> None]

RECURSIVE PerfAll(_, _)
\* Lines 151-171: the loop state after the first n lines of d; an exception
\* ends the loop.
PerfAll(d, n) ==
    IF n = 0
    THEN [results |-> EmptyDict, in_performance_stats |-> FALSE, exception |-> None]
    ELSE LET st == PerfAll(d, n - 1)
         IN  IF st.exception # None THEN st
             ELSE PerfLine(st.results, st.in_performance_stats, d[n])

\* Lines 149-173 as a function of the argument: the dict returned (when
\* parse_perf_data_raises(d) is None).
parse_perf_data(d) == PerfAll(d, Len(d)).results

parse_perf_data_raises(d) == PerfAll(d, Len(d)).exception

(***************************************************************************)
(* test()                                                                  *)
(***************************************************************************)
\* Lines 41-55: the defaults setUp() stores in self.schbench_params.
DEFAULT_SCHBENCH_PARAMS ==
    [perf_stat |-> "", taskset |-> "", locking |-> TRUE, num_threads |-> 1,
     num_workers |-> 1, cache_footprint |-> 256, num_operations |-> 5,
     bytes |-> 0, rps |-> 100, runtime |-> 5, warmuptime |-> 0,
     autobench |-> FALSE]

\* self.workdir and self.logdir are given by the test harness.
workdir == "/workdir"

RECURSIVE IntStr(_)
\* Python: str(n) for n >= 0, as '{name}'.format() renders an int.
IntStr(n) ==
    IF n < 10 THEN SubSeq("0123456789", n + 1, n + 1)
    ELSE IntStr(n \div 10) \o SubSeq("0123456789", (n % 10) + 1, (n % 10) + 1)

\* Lines 178-186: the args string.
BuildArgs(sp) ==
    "-m " \o IntStr(sp.num_threads) \o " -t " \o IntStr(sp.num_workers)
      \o " -p " \o IntStr(sp.bytes) \o " -r " \o IntStr(sp.runtime)
      \o " -i " \o IntStr(sp.runtime) \o "                 -F "
      \o IntStr(sp.cache_footprint) \o " -n " \o IntStr(sp.num_operations)
      \o " -R " \o IntStr(sp.rps) \o " -w " \o IntStr(sp.warmuptime) \o " "
      \o (IF sp.autobench THEN "-A " ELSE "")
      \o (IF sp.locking THEN "-L " ELSE "")

\* Lines 188-192: self.schbench_params after the two prefixes are put in.
WrapParams(sp) ==
    [sp EXCEPT
       !.perf_stat = IF @ # "" THEN "perf stat " \o @ ELSE @,
       !.taskset = IF @ # "" THEN "taskset -c " \o @ ELSE @]

\* Line 194.
BuildCmd(sp) ==
    sp.perf_stat \o " " \o sp.taskset \o " " \o workdir \o "/schbench "
      \o BuildArgs(sp)

\* The names bound at module level (lines 16-26) and the locals test() has
\* assigned when line 204 runs.  A name in neither (nor a builtin) raises
\* NameError when evaluated.
ModuleNames ==
    {"json", "os", "platform", "re", "Test", "process", "build", "distro",
     "git", "SoftwareManager", "Schbench"}

TestLocals == {"self", "args", "cmd", "res", "data", "result"}

NameDefined(name) == name \in ModuleNames \cup TestLocals

\* Line 207: json.dumps(result, indent=4), the JSON document of a value.
json_dumps(v) == [json |-> v]

(***************************************************************************)
(* Inputs.                                                                 *)
(***************************************************************************)
\* Lines of schbench output and variations of them.
SchbenchLines ==
    {"Wakeup Latencies percentiles (usec) runtime 5 (s)",
     "Request Latencies percentiles (usec) runtime 5 (s)",
     "\t* 99.0th: 5 (3 samples)",
     "\t  50.0th: 10 (5 samples)",
     "\t  min=5, max=900",
     "average rps: 1234.56",
     "average rps: 2.50 min=1",
     "50.0th: 10 (5 samples) RPS percentiles (requests)",
     "Request Latencies percentiles Wakeup Latencies percentiles",
     "  ",
     " average rps: 9.5"}

\* Lines of perf stat output and variations of them.
PerfLines ==
    {" Performance counter stats for 'schbench':",
     "  1,234,567   cycles   #  2.500 GHz",
     "5 cycles # 7 raw",
     "6 cycles # 8",
     "1.2.3 cycles # 8 u",
     "1 cycles # . u",
     "",
     "5.001 seconds time elapsed",
     "Performance counter stats 9 instructions # 3 GHz"}

\* Lines of the stderr of a run under perf stat.
TestLines ==
    {"Wakeup Latencies percentiles (usec) runtime 5 (s)",
     "\t* 99.0th: 5 (3 samples)",
     " Performance counter stats for 'schbench':",
     "  1,234,567   cycles   #  2.500 GHz"}

\* The sequences of at most MaxLen lines of L.
Inputs(L) == UNION {[1..n -> L] : n \in 0..MaxLen}

(***************************************************************************)
(* parse_schbench_data as a state machine: one step per loop iteration.    *)
(***************************************************************************)
InitSchbench ==
    /\ op = "parse_schbench_data"
    /\ input \in Inputs(SchbenchLines)
    /\ data = input
    /\ pc = "find_last"
    /\ i = 0
    /\ last_occurrence_index = -1
    /\ current_category = None
    /\ results = EmptyDict
    /\ in_performance_stats = FALSE
    /\ schbench_params = DEFAULT_SCHBENCH_PARAMS
    /\ cmd = ""
    /\ exit_status = 0
    /\ logfile = NotWritten
    /\ exception = None

\* Lines 99-101, one iteration.
FindLastStep ==
    /\ pc = "find_last"
    /\ i < Len(data)
    /\ last_occurrence_index' = FindLastUpdate(last_occurrence_index, i, data[i + 1])
    /\ i' = i + 1
    /\ UNCHANGED <<op, input, data, pc, current_category, results,
                   in_performance_stats, schbench_params, cmd, exit_status,
                   logfile, exception>>

\* Lines 104-107 (and 147 when the header was never seen).
Slice ==
    /\ pc = "find_last"
    /\ i = Len(data)
    /\ IF last_occurrence_index # -1
       THEN /\ data' = SubSeq(data, last_occurrence_index + 1, Len(data))
            /\ current_category' = None
            /\ i' = 0
            /\ pc' = "process"
       ELSE /\ pc' = "returned"
            /\ UNCHANGED <<data, current_category, i>>
    /\ UNCHANGED <<op, input, last_occurrence_index, results,
                   in_performance_stats, schbench_params, cmd, exit_status,
                   logfile, exception>>

\* Lines 108-146, one iteration.
ProcessStep ==
    /\ pc = "process"
    /\ i < Len(data)
    /\ LET r == ProcessLine(results, current_category, data[i + 1])
       IN  /\ results' = r.results
           /\ current_category' = r.current_category
    /\ i' = i + 1
    /\ UNCHANGED <<op, input, data, pc, last_occurrence_index,
                   in_performance_stats, schbench_params, cmd, exit_status,
                   logfile, exception>>

\* Line 147.
ProcessReturn ==
    /\ pc = "process"
    /\ i = Len(data)
    /\ pc' = "returned"
    /\ UNCHANGED <<op, input, data, i, last_occurrence_index, current_category,
                   results, in_performance_stats, schbench_params, cmd,
                   exit_status, logfile, exception>>

NextSchbench == FindLastStep \/ Slice \/ ProcessStep \/ ProcessReturn

SpecSchbench == InitSchbench /\ [][NextSchbench]_vars

(***************************************************************************)
(* parse_perf_data as a state machine: one step per loop iteration.        *)
(***************************************************************************)
InitPerf ==
    /\ op = "parse_perf_data"
    /\ input \in Inputs(PerfLines)
    /\ data = input
    /\ pc = "perf_loop"
    /\ i = 0
    /\ last_occurrence_index = -1
    /\ current_category = None
    /\ results = EmptyDict
    /\ in_performance_stats = FALSE
    /\ schbench_params = DEFAULT_SCHBENCH_PARAMS
    /\ cmd = ""
    /\ exit_status = 0
    /\ logfile = NotWritten
    /\ exception = None

\* Lines 155-171, one iteration; a ValueError of float() leaves the method.
PerfStep ==
    /\ pc = "perf_loop"
    /\ i < Len(data)
    /\ LET r == PerfLine(results, in_performance_stats, data[i + 1])
       IN  /\ results' = r.results
           /\ in_performance_stats' = r.in_performance_stats
           /\ exception' = r.exception
           /\ pc' = IF r.exception # None THEN "raised" ELSE pc
    /\ i' = i + 1
    /\ UNCHANGED <<op, input, data, last_occurrence_index, current_category,
                   schbench_params, cmd, exit_status, logfile>>

\* Line 173.
PerfReturn ==
    /\ pc = "perf_loop"
    /\ i = Len(data)
    /\ pc' = "returned"
    /\ UNCHANGED <<op, input, data, i, last_occurrence_index, current_category,
                   results, in_performance_stats, schbench_params, cmd,
                   exit_status, logfile, exception>>

NextPerf == PerfStep \/ PerfReturn

SpecPerf == InitPerf /\ [][NextPerf]_vars

(***************************************************************************)
(* test() as a state machine.                                              *)
(***************************************************************************)
InitTest ==
    /\ op = "test"
    /\ input = <<>>
    /\ data = <<>>
    /\ pc = "build_cmd"
    /\ i = 0
    /\ last_occurrence_index = -1
    /\ current_category = None
    /\ results = EmptyDict
    /\ in_performance_stats = FALSE
    /\ \E ps \in {"", "-e cycles"}, ts \in {"", "0-3"}, lk \in BOOLEAN, ab \in BOOLEAN :
           schbench_params = [DEFAULT_SCHBENCH_PARAMS EXCEPT
                                 !.perf_stat = ps, !.taskset = ts,
                                 !.locking = lk, !.autobench = ab]
    /\ cmd = ""
    /\ exit_status = 0
    /\ logfile = NotWritten
    /\ exception = None

\* Lines 178-194.
TestBuildCmd ==
    /\ pc = "build_cmd"
    /\ schbench_params' = WrapParams(schbench_params)
    /\ cmd' = BuildCmd(WrapParams(schbench_params))
    /\ pc' = "run"
    /\ UNCHANGED <<op, input, data, i, last_occurrence_index, current_category,
                   results, in_performance_stats, exit_status, logfile, exception>>

\* Line 195: the process runs; its exit status and its stderr are the
\* environment's choice (input holds the lines of res.stderr).
TestRun ==
    /\ pc = "run"
    /\ \E status \in {0, 1}, err \in Inputs(TestLines) :
           /\ exit_status' = status
           /\ input' = err
    /\ pc' = "check_status"
    /\ UNCHANGED <<op, data, i, last_occurrence_index, current_category, results,
                   in_performance_stats, schbench_params, cmd, logfile, exception>>

\* Lines 197-202: self.fail() raises; otherwise the stderr is parsed.
TestParse ==
    /\ pc = "check_status"
    /\ IF exit_status # 0
       THEN /\ exception' = "TestFail"
            /\ pc' = "raised"
            /\ UNCHANGED <<data, results>>
       ELSE /\ data' = input
            /\ results' = parse_schbench_data(input)
            /\ pc' = "report"
            /\ UNCHANGED exception
    /\ UNCHANGED <<op, input, i, last_occurrence_index, current_category,
                   in_performance_stats, schbench_params, cmd, exit_status, logfile>>

\* Lines 204-210.  Line 204 evaluates the name perfstat, which nothing binds:
\* NameError.  The other branch (a bound, truthy or falsy, perfstat) is what
\* lines 205-210 do; no run reaches it.
TestReport ==
    /\ pc = "report"
    /\ IF ~NameDefined("perfstat")
       THEN /\ exception' = "NameError"
            /\ pc' = "raised"
            /\ UNCHANGED <<results, logfile>>
       ELSE \E perfstat \in BOOLEAN :
              IF perfstat /\ parse_perf_data_raises(data) # None
              THEN /\ exception' = parse_perf_data_raises(data)
                   /\ pc' = "raised"
                   /\ UNCHANGED <<results, logfile>>
              ELSE /\ results' = IF perfstat
                                 THEN DictUpdate(results, parse_perf_data(data))
                                 ELSE results
                   /\ logfile' = json_dumps(results')
                   /\ pc' = "returned"
                   /\ UNCHANGED exception
    /\ UNCHANGED <<op, input, data, i, last_occurrence_index, current_category,
                   in_performance_stats, schbench_params, cmd, exit_status>>

NextTest == TestBuildCmd \/ TestRun \/ TestParse \/ TestReport

SpecTest == InitTest /\ [][NextTest]_vars

(***************************************************************************)
(* Properties.                                                             *)
(***************************************************************************)
Wakeup == "Wakeup Latencies percentiles"
CategoryKeys ==
    {"wakeup_latencies_percentiles", "request_latencies_percentiles",
     "rps_percentiles"}

\* The header text of a category key.
HeaderOf(key) ==
    CASE key = "wakeup_latencies_percentiles" -> "Wakeup Latencies percentiles"
      [] key = "request_latencies_percentiles" -> "Request Latencies percentiles"
      [] key = "rps_percentiles" -> "RPS percentiles (requests)"

\* The 1-based number of the last line of d that contains the Wakeup header,
\* 0 when no line does.
LastWakeup(d) ==
    IF \E k \in 1..Len(d) : In(Wakeup, d[k])
    THEN CHOOSE k \in 1..Len(d) :
             In(Wakeup, d[k]) /\ \A m \in (k + 1)..Len(d) : ~In(Wakeup, d[m])
    ELSE 0

\* parse_schbench_data is in its second loop or has left it: data is the
\* slice that starts at the last Wakeup header and i lines of it are done.
Scanning ==
    /\ op = "parse_schbench_data"
    /\ pc \in {"process", "returned"}
    /\ last_occurrence_index # -1

\* The value under average_rps, if any, as a sequence of length <= 1.
AvgOf(res) == IF "average_rps" \in DOMAIN res THEN <<res["average_rps"]>> ELSE <<>>

\* C1: parse_schbench_data returns what parsing only the suffix of its input
\* that starts at the last line containing the Wakeup header returns;
\* whatever stands in front of that line has no influence.
C1_ResultIsResultOfLastPass ==
    (op = "parse_schbench_data" /\ pc = "returned" /\ LastWakeup(input) # 0)
        => results = parse_schbench_data(
                         SubSeq(input, LastWakeup(input), Len(input)))

\* A run over an input that holds an earlier pass (Wakeup header followed by
\* a percentile line) in front of the last Wakeup header has returned.
C1_Witness ==
    /\ op = "parse_schbench_data" /\ pc = "returned"
    /\ LastWakeup(input) = 3
    /\ In(Wakeup, input[1])
    /\ re_match_percentile(input[2]) # NoMatch
    /\ results # EmptyDict

\* C2: when no line of the input contains the Wakeup header the result is
\* the empty mapping and nothing was raised, whatever else the input holds.
C2_NoWakeupGivesEmpty ==
    (op = "parse_schbench_data" /\ pc = "returned" /\ LastWakeup(input) = 0)
        => results = EmptyDict /\ exception = None

\* A run has returned over an input without Wakeup header that holds a
\* Request header, a percentile line and an average-rps line.
C2_Witness ==
    /\ op = "parse_schbench_data" /\ pc = "returned"
    /\ LastWakeup(input) = 0
    /\ Len(input) = 3
    /\ In("Request Latencies percentiles", input[1])
    /\ re_match_percentile(input[2]) # NoMatch
    /\ re_match_average_rps(input[3]) # NoMatch

\* C3 as stated: a percentile line appends exactly one entry to the active
\* category's sequence, and the entry has the three fields percentile,
\* latency and samples holding the captured strings.
C3_EntryHasThreeFields ==
    [][(Scanning /\ pc = "process" /\ i < Len(data)
            /\ re_match_percentile(data[i + 1]) # NoMatch)
        => LET m == re_match_percentile(data[i + 1])
               cat == current_category'
               old == IF cat \in DOMAIN results
                      THEN results[cat].percentiles ELSE <<>>
           IN  results'[cat].percentiles =
                   Append(old, [percentile |-> m[2], latency |-> m[3],
                                samples |-> m[4]])]_vars

\* C3 amended: a percentile line appends exactly one entry to the active
\* category's sequence; the entry is a mapping with the single key
\* "percentile_<percentile>" whose value has the two fields latency and
\* samples holding the captured strings; the asterisk (group 1) has no part
\* in it.
C3_EntryIsKeyedByPercentile ==
    [][(Scanning /\ pc = "process" /\ i < Len(data)
            /\ re_match_percentile(data[i + 1]) # NoMatch)
        => LET m == re_match_percentile(data[i + 1])
               cat == current_category'
               old == IF cat \in DOMAIN results
                      THEN results[cat].percentiles ELSE <<>>
               new == results'[cat].percentiles
           IN  /\ cat \in CategoryKeys
               /\ Len(new) = Len(old) + 1
               /\ SubSeq(new, 1, Len(old)) = old
               /\ DOMAIN new[Len(new)] = {"percentile_" \o m[2]}
               /\ new[Len(new)]["percentile_" \o m[2]] =
                      [latency |-> m[3], samples |-> m[4]]]_vars

\* The line just processed is a percentile line with the asterisk and the
\* active block holds its entry.
C3_Witness ==
    /\ Scanning /\ i >= 1
    /\ re_match_percentile(data[i]) # NoMatch
    /\ re_match_percentile(data[i])[1] = "*"
    /\ Len(results[current_category].percentiles) >= 1

\* The numbers k <= n of the lines of data that C4 is about: non-blank, no
\* category header, not a percentile line, not of the min/max shape, of the
\* average-rps shape.
AverageRpsLines(n) ==
    {k \in 1..n :
        /\ strip(data[k]) # ""
        /\ \A c \in CategoryKeys : ~In(HeaderOf(c), data[k])
        /\ re_match_percentile(data[k]) = NoMatch
        /\ re_match_min_max(data[k]) = NoMatch
        /\ re_match_average_rps(data[k]) # NoMatch}

\* C4: once such a line has been processed, average_rps is a top-level key
\* and holds the float of the last such line.
C4_AverageRpsOfLastSuchLine ==
    (Scanning /\ AverageRpsLines(i) # {})
        => LET k == CHOOSE k \in AverageRpsLines(i) :
                        \A m \in AverageRpsLines(i) : m <= k
           IN  AvgOf(results) = <<float(re_match_average_rps(data[k])[1])>>

\* The first line of the input with the marker of perf stat, 0 when none.
FirstMarker(d) ==
    IF \E k \in 1..Len(d) : In("Performance counter stats", d[k])
    THEN CHOOSE k \in 1..Len(d) :
             /\ In("Performance counter stats", d[k])
             /\ \A m \in 1..(k - 1) : ~In("Performance counter stats", d[m])
    ELSE 0

\* The lines after the first marker that are no marker lines, are not blank
\* and have the counter shape.
CounterLines(d) ==
    {k \in 1..Len(d) :
        /\ FirstMarker(d) # 0 /\ k > FirstMarker(d)
        /\ ~In("Performance counter stats", d[k])
        /\ strip(d[k]) # ""
        /\ re_match_perf(d[k]) # NoMatch}

CounterName(line) == strip(re_match_perf(line)[2])
CounterUnit(line) == strip(re_match_perf(line)[4])
CounterPrimary(line) == float(strip(replace_comma(re_match_perf(line)[1])))
CounterSecondary(line) == float(strip(replace_comma(re_match_perf(line)[3])))

\* The last element of a non-empty set of line numbers.
Latest(S) == CHOOSE k \in S : \A m \in S : m <= k

\* C5: the result of parse_perf_data has exactly the names of the counter
\* lines after the first marker; under each name, raw is the primary value
\* of the last counter line of that name, each unit of a counter line of
\* that name holds the secondary value (of the last such line), and there
\* are no other fields.
C5_PerfResultFromCounterLines ==
    (op = "parse_perf_data" /\ pc = "returned")
        => LET L == CounterLines(input)
               Of(name) == {k \in L : CounterName(input[k]) = name}
               OfUnit(name, u) == {k \in Of(name) : CounterUnit(input[k]) = u}
               Units(name) == {CounterUnit(input[k]) : k \in Of(name)} \ {""}
           IN  /\ DOMAIN results = {CounterName(input[k]) : k \in L}
               /\ \A name \in DOMAIN results :
                      /\ DOMAIN results[name] = {"raw"} \cup Units(name)
                      /\ results[name]["raw"] =
                             CounterPrimary(input[Latest(Of(name))])
                      /\ \A u \in Units(name) :
                             results[name][u] =
                                 CounterSecondary(input[Latest(OfUnit(name, u))])

\* C6: neither parser raises, whatever the lines are.
C6_ParsersNeverRaise ==
    (op \in {"parse_schbench_data", "parse_perf_data"}) => exception = None

\* C7: a test() whose benchmark run exited with status 0 ends with the JSON
\* document of the result in schbench.json: the schbench result, updated
\* with the perf result when the perf_stat parameter was set.
C7_ResultWrittenOnSuccess ==
    (op = "test" /\ pc \in {"returned", "raised"} /\ exit_status = 0)
        => /\ logfile # NotWritten
           /\ logfile = json_dumps(
                  IF schbench_params.perf_stat # ""
                  THEN DictUpdate(parse_schbench_data(input), parse_perf_data(input))
                  ELSE parse_schbench_data(input))

\* C8: processing a line that contains a category header leaves every
\* percentile sequence, every min_max mapping and average_rps as they were
\* (a block the line creates is empty).
C8_HeaderLineOnlySwitches ==
    [][(Scanning /\ pc = "process" /\ i < Len(data)
            /\ \E c \in CategoryKeys : In(HeaderOf(c), data[i + 1]))
        => /\ \A k \in DOMAIN results :
                  k \in DOMAIN results' /\ results'[k] = results[k]
           /\ \A k \in DOMAIN results' \ DOMAIN results :
                  k \in CategoryKeys /\ results'[k] = EmptyBlock]_vars

\* The category key cat has its header in the last line, among the first n
\* of data, that contains any category header.
HeaderMostRecentlySeen(cat, n) ==
    LET hs == {k \in 1..n : \E c \in CategoryKeys : In(HeaderOf(c), data[k])}
    IN  /\ hs # {}
        /\ cat \in CategoryKeys
        /\ In(HeaderOf(cat), data[Latest(hs)])

\* C9: a percentile line appends one entry at the end of the block of the
\* category whose header was seen last, a min/max line sets min and max of
\* that block to the captured strings, and either leaves everything else
\* (the other blocks, the other part of that block, average_rps) unchanged;
\* no step of the scan removes, reorders or resets entries of any block.
C9_OnlyActiveBlockChanges ==
    [][(Scanning /\ pc = "process" /\ i < Len(data))
        => LET line == data[i + 1]
               cat == current_category'
               pm == re_match_percentile(line)
               mm == re_match_min_max(line)
               old == IF cat \in DOMAIN results THEN results[cat] ELSE EmptyBlock
           IN  /\ \A k \in DOMAIN results \cap CategoryKeys :
                      /\ k \in DOMAIN results'
                      /\ Len(results'[k].percentiles) >= Len(results[k].percentiles)
                      /\ SubSeq(results'[k].percentiles, 1,
                                Len(results[k].percentiles)) = results[k].percentiles
               /\ (pm # NoMatch \/ mm # NoMatch)
                      => /\ HeaderMostRecentlySeen(cat, i + 1)
                         /\ AvgOf(results') = AvgOf(results)
                         /\ DOMAIN results' = DOMAIN results \cup {cat}
                         /\ \A k \in DOMAIN results \ {cat} :
                                results'[k] = results[k]
               /\ pm # NoMatch
                      => /\ Len(results'[cat].percentiles) =
                                Len(old.percentiles) + 1
                         /\ results'[cat].min_max = old.min_max
               /\ (pm = NoMatch /\ mm # NoMatch)
                      => /\ results'[cat].percentiles = old.percentiles
                         /\ results'[cat].min_max =
                                [min |-> mm[1], max |-> mm[2]]]_vars

\* A header has just reappeared while its block held entries, and the block
\* still holds them.
C9_Witness ==
    /\ Scanning /\ i >= 2
    /\ current_category \in CategoryKeys
    /\ In(HeaderOf(current_category), data[i])
    /\ \E k \in 1..(i - 1) : In(HeaderOf(current_category), data[k])
    /\ Len(results[current_category].percentiles) >= 2

\* The lines of the last pass processed so far (none before the second loop).
Processed == IF Scanning THEN i ELSE 0

\* C10 as stated: the keys are among the three category keys and
\* average_rps, a category key is present exactly when a processed line
\* contains that category's header, every processed line had an active
\* category, and a non-empty result contains wakeup_latencies_percentiles.
C10_KeyIffHeaderSeen ==
    (op = "parse_schbench_data")
        => /\ DOMAIN results \subseteq CategoryKeys \cup {"average_rps"}
           /\ \A c \in CategoryKeys :
                  c \in DOMAIN results
                      <=> \E k \in 1..Processed : In(HeaderOf(c), data[k])
           /\ Processed >= 1 => current_category \in DOMAIN results
           /\ results # EmptyDict => "wakeup_latencies_percentiles" \in DOMAIN results

\* The header of c is in the line and no header of a category that comes
\* before c in the order Wakeup, Request, RPS is.
FirstHeaderIs(c, line) ==
    /\ In(HeaderOf(c), line)
    /\ c = "request_latencies_percentiles" => ~In(Wakeup, line)
    /\ c = "rps_percentiles"
           => ~In(Wakeup, line) /\ ~In("Request Latencies percentiles", line)

\* C10 amended: as C10, but a category key is present exactly when some
\* processed line has that category's header as the first, in the order
\* Wakeup, Request, RPS, of the headers it contains.
C10_KeyIffFirstHeaderSeen ==
    (op = "parse_schbench_data")
        => /\ DOMAIN results \subseteq CategoryKeys \cup {"average_rps"}
           /\ \A c \in CategoryKeys :
                  c \in DOMAIN results
                      <=> \E k \in 1..Processed : FirstHeaderIs(c, data[k])
           /\ Processed >= 1 => current_category \in DOMAIN results
           /\ results # EmptyDict => "wakeup_latencies_percentiles" \in DOMAIN results

\* A line that contains the Request and the Wakeup header has been
\* processed and the result has no Request block.
C10_Witness ==
    /\ Scanning /\ i >= 1
    /\ In("Request Latencies percentiles", data[1])
    /\ "request_latencies_percentiles" \notin DOMAIN results
    /\ "wakeup_latencies_percentiles" \in DOMAIN results

====
